---- MODULE Spec2Model ----
(***************************************************************************)
(* hai_detect: ClinicalTextDocument (segmentation, annotate) and           *)
(* Annotation (from_markup, classify).                                     *)
(*                                                                         *)
(* A text is a sequence of one-character strings.  Offsets are Python      *)
(* offsets: 0-based, a span <<start, end>> is half open.                   *)
(***************************************************************************)
EXTENDS Integers, Sequences, FiniteSets, TLC

VARIABLES
    pc,                          \* position of the running call
    raw_text,                    \* ClinicalTextDocument.raw_text
    original_spans,              \* ClinicalTextDocument.original_spans
    preprocessed_text,           \* ClinicalTextDocument.preprocessed_text
    sentences,                   \* ClinicalTextDocument.sentences
    model,                       \* the markup engine handed to annotate
    markups,                     \* what markup_sentence returned, one per sentence visited
    target_idx,                  \* targets of the current markup already handled
    annotations,                 \* ClinicalTextDocument.annotations
    sentences_with_annotations,  \* ClinicalTextDocument.sentences_with_annotations
    error,                       \* the exception the call raised to its caller
    annotation,                  \* the Annotation classify is called on
    returned,                    \* what the last classify call returned
    calls,                       \* the classify calls made so far
    rpt_id,                      \* ClinicalTextDocument.rpt_id
    outdir,                      \* the outdir handed to to_knowtator
    directories,                 \* the directories that exist
    files,                       \* the files that exist
    element_tree,                \* the tree to_etree returned
    f_out                        \* the file object of to_knowtator

vars == <<pc, raw_text, original_spans, preprocessed_text, sentences, model,
          markups, target_idx, annotations, sentences_with_annotations,
          error, annotation, returned, calls, rpt_id, outdir, directories,
          files, element_tree, f_out>>

doc_vars == <<raw_text, original_spans, preprocessed_text, sentences>>
annotate_vars == <<model, markups, target_idx, annotations,
                   sentences_with_annotations, error>>
classify_vars == <<annotation, returned, calls>>
file_vars == <<rpt_id, outdir, directories, files, element_tree, f_out>>

-----------------------------------------------------------------------------
(* Bounds *)

MaxLen == 5
MaxTargets == 2
MaxModifiers == 2
MaxCalls == 3

\* The characters raw texts are drawn from.
Alphabet == {"D", "M", "r", ".", "!", " ", "\n"}

Texts == UNION {[1..n -> Alphabet] : n \in 0..MaxLen}

-----------------------------------------------------------------------------
(* Strings *)

Whitespace == {" ", "\n", "\t", "\r"}

Min(S) == CHOOSE m \in S : \A k \in S : m <= k
Max(S) == CHOOSE m \in S : \A k \in S : m >= k

\* min() and max() of a Python list of ints
ListMin(l) == Min({l[i] : i \in DOMAIN l})
ListMax(l) == Max({l[i] : i \in DOMAIN l})

\* str.lower(), one character
LowerChar(c) ==
    CASE c = "D" -> "d"
      [] c = "R" -> "r"
      [] c = "M" -> "m"
      [] c = "S" -> "s"
      [] OTHER -> c

\* str.lower()
Lower(s) == [i \in DOMAIN s |-> LowerChar(s[i])]

\* s[a:b] for 0 <= a, 0 <= b: Python clamps both ends to len(s)
Slice(s, a, b) ==
    LET hi == IF b > Len(s) THEN Len(s) ELSE b
    IN  IF a >= hi THEN <<>> ELSE SubSeq(s, a + 1, hi)

\* str.split(): the maximal runs of non-whitespace characters, in order
RECURSIVE SplitFrom(_, _, _)
SplitFrom(s, i, word) ==
    IF i > Len(s)
    THEN IF word = <<>> THEN <<>> ELSE <<word>>
    ELSE IF s[i] \in Whitespace
         THEN IF word = <<>>
              THEN SplitFrom(s, i + 1, <<>>)
              ELSE <<word>> \o SplitFrom(s, i + 1, <<>>)
         ELSE SplitFrom(s, i + 1, Append(word, s[i]))

Split(s) == SplitFrom(s, 1, <<>>)

\* ' '.join(words)
RECURSIVE Join(_)
Join(words) ==
    IF words = <<>> THEN <<>>
    ELSE IF Len(words) = 1 THEN words[1]
    ELSE words[1] \o <<" ">> \o Join(Tail(words))

\* list.extend over a list of lists
RECURSIVE Flatten(_)
Flatten(ls) == IF ls = <<>> THEN <<>> ELSE ls[1] \o Flatten(Tail(ls))

-----------------------------------------------------------------------------
(* ClinicalTextDocument: construction *)

\* WhitespaceTokenizer().span_tokenize(text): the (start, end) of every
\* maximal run of non-whitespace characters, in text order.
RECURSIVE SpansFrom(_, _)
SpansFrom(text, starts) ==
    IF starts = {} THEN <<>>
    ELSE LET i == Min(starts)
             e == Min({j \in i..Len(text) :
                          j = Len(text) \/ text[j + 1] \in Whitespace})
         IN  <<<<i - 1, e>>>> \o SpansFrom(text, starts \ {i})

\* get_text_spans with inclusive ends
get_text_spans_inclusive(text) ==
    LET spans == SpansFrom(text, {i \in 1..Len(text) :
                                    /\ text[i] \notin Whitespace
                                    /\ (i = 1 \/ text[i - 1] \in Whitespace)})
    IN  [k \in DOMAIN spans |-> <<spans[k][1], spans[k][2] - 1>>]

get_text_spans(text) ==
    SpansFrom(text, {i \in 1..Len(text) :
                        /\ text[i] \notin Whitespace
                        /\ (i = 1 \/ text[i - 1] \in Whitespace)})

preprocess(text) == Join(Split(Lower(text)))

termination_points == {".", "!", "?"}

exception_words == {<<"d", "r", ".">>, <<"m", ".", "d">>, <<"m", "r", ".">>,
                    <<"m", "s", ".">>, <<"m", "r", "s", ".">>}

\* One sentence dict built from the current buffers.
sentence_dict(idx, current_sentence, current_spans) ==
    [text       |-> Join(current_sentence),
     words      |-> current_sentence,
     idx        |-> idx,
     span       |-> <<current_spans[1][1],
                      current_spans[Len(current_spans)][2]>>,
     word_spans |-> current_spans]

\* ends_sentence without the exception words
ends_sentence_no_exceptions(word) == word[Len(word)] \in termination_points

\* The test that closes the current sentence after `word`.
ends_sentence(word) ==
    /\ word[Len(word)] \in termination_points
    /\ word \notin exception_words

\* The loop of split_sentences over zip(words, spans), from pair i on, and the
\* flush of the words remaining after it.
RECURSIVE split_loop(_, _, _, _, _, _, _)
split_loop(words, spans, i, idx, current_sentence, current_spans, out) ==
    IF i > Len(words) \/ i > Len(spans)
    THEN IF Len(current_sentence) > 0
         THEN Append(out, sentence_dict(idx, current_sentence, current_spans))
         ELSE out
    ELSE LET cs == Append(current_sentence, words[i])
             sp == Append(current_spans, spans[i])
         IN  IF ends_sentence(words[i])
             THEN split_loop(words, spans, i + 1, idx + 1, <<>>, <<>>,
                             Append(out, sentence_dict(idx, cs, sp)))
             ELSE split_loop(words, spans, i + 1, idx, cs, sp, out)

\* split_sentences without the flush of the remaining words
split_sentences_no_flush(text, spans) ==
    LET out == split_loop(Split(text), spans, 1, 0, <<>>, <<>>, <<>>)
        last == out[Len(out)].words
    IN  IF out # <<>> /\ ~ends_sentence(last[Len(last)])
        THEN SubSeq(out, 1, Len(out) - 1)
        ELSE out

split_sentences(text, spans) ==
    split_loop(Split(text), spans, 1, 0, <<>>, <<>>, <<>>)

-----------------------------------------------------------------------------
(* Specification of the segmenter: ClinicalTextDocument(text) for every text *)

NoAnnotation == [classification |-> "None"]

\* to_knowtator is not called: no report id, no output directory, no file.
NoFileCall ==
    /\ rpt_id = ""
    /\ outdir = "None"
    /\ directories = {}
    /\ files = {}
    /\ element_tree = "None"
    /\ f_out = "None"

InitSegment ==
    /\ pc = "new"
    /\ raw_text \in Texts
    /\ original_spans = <<>>
    /\ preprocessed_text = <<>>
    /\ sentences = <<>>
    /\ model = "None"
    /\ markups = <<>>
    /\ target_idx = 0
    /\ annotations = <<>>
    /\ sentences_with_annotations = <<>>
    /\ error = "None"
    /\ annotation = NoAnnotation
    /\ returned = "None"
    /\ calls = 0
    /\ NoFileCall

\* ClinicalTextDocument.__init__(text)
Construct ==
    /\ pc = "new"
    /\ original_spans' = get_text_spans(raw_text)
    /\ preprocessed_text' = preprocess(raw_text)
    /\ sentences' = split_sentences(preprocess(raw_text), get_text_spans(raw_text))
    /\ pc' = "constructed"
    /\ UNCHANGED <<raw_text, annotate_vars, classify_vars, file_vars>>

NextSegment == Construct

SpecSegment == InitSegment /\ [][NextSegment]_vars

-----------------------------------------------------------------------------
(* Annotation *)

\* Annotation._annotation_types
annotation_types ==
    [c \in {"organ/space surgical site infection",
            "deep surgical site infection",
            "superficial surgical site infection",
            "negated superficial surgical site infection",
            "urinary tract infection",
            "pneumonia"} |->
        CASE c = "urinary tract infection" -> "Evidence of UTI"
          [] c = "pneumonia" -> "Evidence of Pneumonia"
          [] OTHER -> "Evidence of SSI"]

\* Annotation._annotation_classifications
annotation_classifications ==
    [t \in {"Evidence of SSI", "Evidence of UTI", "Evidence of Pneumonia"} |->
        CASE t = "Evidence of SSI" ->
                 [positive   |-> "Positive Evidence of SSI",
                  negated    |-> "Negated Evidence of SSI",
                  probable   |-> "Probable Evidence of SSI",
                  indication |-> "Indication of SSI"]
          [] t = "Evidence of UTI" ->
                 [positive   |-> "Positive Evidence of UTI",
                  negated    |-> "Negated Evidence of UTI",
                  probable   |-> "Probable Evidence of UTI",
                  indication |-> "Indication of UTI"]
          [] t = "Evidence of Pneumonia" ->
                 [positive   |-> "Positive Evidence of Pneumonia",
                  negated    |-> "Negated Evidence of Pneumonia",
                  probable   |-> "Probable Evidence of Pneumonia",
                  indication |-> "Indication of Pneumonia"]]

\* 'surgical site infection' in markup_category
is_ssi_category(category) ==
    category \in {"organ/space surgical site infection",
                  "deep surgical site infection",
                  "superficial surgical site infection",
                  "negated superficial surgical site infection"}

\* re.search('([a-z/]*) surgical site infection', category).group(1)
infection_type(category) ==
    CASE category = "organ/space surgical site infection" -> "organ/space"
      [] category = "deep surgical site infection" -> "deep"
      [] OTHER -> "superficial"

\* x in l, for a Python list l
InList(x, l) == \E i \in DOMAIN l : l[i] = x

\* [f(x) for x in l if p(x)] with f the literal and p the anatomy test
RECURSIVE anatomy_of(_)
anatomy_of(modifiers) ==
    IF modifiers = <<>> THEN <<>>
    ELSE (IF InList("anatomy", modifiers[1].category)
             \/ InList("surgical site", modifiers[1].category)
          THEN <<modifiers[1].literal>> ELSE <<>>)
         \o anatomy_of(Tail(modifiers))

\* str.title() of a temporality
Title(temporality) ==
    CASE temporality = "current" -> "Current"
      [] temporality = "historical" -> "Historical"
      [] temporality = "future/hypothetical" -> "Future/Hypothetical"

\* classify that extends the cached classification when there is one
classify_appending(self) ==
    LET base == IF self.classification = "None"
                THEN annotation_classifications[self.annotation_type]
                                               [self.attributes.assertion]
                ELSE self.classification
        timed == IF self.attributes.temporality # "current"
                 THEN base \o " - " \o Title(self.attributes.temporality)
                 ELSE base
    IN  IF self.annotation_type = "Evidence of SSI"
           /\ self.attributes.assertion = "positive"
           /\ self.attributes.temporality = "current"
           /\ self.attributes.anatomy = <<>>
        THEN timed \o " - No Anatomy"
        ELSE timed

\* classify without the anatomy test
classify_no_anatomy_suffix(self) ==
    annotation_classifications[self.annotation_type][self.attributes.assertion]

\* Annotation.classify: the label it returns and stores in self.classification
classify(self) ==
    LET label == annotation_classifications[self.annotation_type]
                                           [self.attributes.assertion]
        timed == IF self.attributes.temporality # "current"
                 THEN label \o " - " \o Title(self.attributes.temporality)
                 ELSE label
    IN  IF timed = "Positive Evidence of SSI" /\ self.attributes.anatomy = <<>>
        THEN timed \o " - No Anatomy"
        ELSE timed

\* the assertion chain with probable_existence tested before definite_existence
assertion_of_probable_first(markup_category, modifier_categories) ==
    IF markup_category = "negated superficial surgical site infection"
    THEN "negated"
    ELSE IF InList("probable_existence", modifier_categories) THEN "probable"
    ELSE IF InList("definite_existence", modifier_categories) THEN "positive"
    ELSE IF InList("definite_negated_existence", modifier_categories) THEN "negated"
    ELSE IF InList("indication", modifier_categories) THEN "indication"
    ELSE "positive"

\* The if/elif chain of from_markup over the default 'positive' of __init__.
assertion_of(markup_category, modifier_categories) ==
    IF markup_category = "negated superficial surgical site infection"
    THEN "negated"
    ELSE IF InList("definite_existence", modifier_categories) THEN "positive"
    ELSE IF InList("definite_negated_existence", modifier_categories) THEN "negated"
    ELSE IF InList("indication", modifier_categories) THEN "indication"
    ELSE IF InList("probable_existence", modifier_categories) THEN "probable"
    ELSE "positive"

\* spans = target span extended by every modifier's span; (min, max) of it
span_in_sentence_of(tag_object) ==
    LET spans == tag_object.span
                 \o Flatten([i \in DOMAIN tag_object.modifiers |->
                                tag_object.modifiers[i].span])
    IN  <<ListMin(spans), ListMax(spans)>>

\* the document span with the sentence offset added to the start only
span_in_document_start_only(span_in_sentence, sentence_span) ==
    <<span_in_sentence[1] + sentence_span[1], span_in_sentence[2]>>

\* span_in_sentence shifted by sentence_span[0]
span_in_document_of(span_in_sentence, sentence_span) ==
    LET sentence_offset == sentence_span[1]
    IN  <<span_in_sentence[1] + sentence_offset,
          span_in_sentence[2] + sentence_offset>>

\* The Annotation that from_markup fills in, for a recognized category.
markup_annotation(tag_object, sentence, sentence_span) ==
    LET markup_category == tag_object.category[1]
        modifier_categories ==
            [i \in DOMAIN tag_object.modifiers |->
                tag_object.modifiers[i].category[1]]
        in_sentence == span_in_sentence_of(tag_object)
        attributes ==
            [assertion   |-> assertion_of(markup_category, modifier_categories),
             temporality |-> "current",
             anatomy     |-> IF is_ssi_category(markup_category)
                             THEN anatomy_of(tag_object.modifiers)
                             ELSE <<>>]
            @@ (IF is_ssi_category(markup_category)
                THEN [infection_type |-> infection_type(markup_category)]
                ELSE <<>>)
        self ==
            [annotator           |-> "hai_detect",
             id                  |-> tag_object.id,
             markup_category     |-> markup_category,
             annotation_type     |-> annotation_types[markup_category],
             span_in_sentence    |-> in_sentence,
             span_in_document    |-> span_in_document_of(in_sentence, sentence_span),
             sentence            |-> sentence,
             text                |-> Slice(sentence, in_sentence[1], in_sentence[2]),
             modifier_categories |-> modifier_categories,
             attributes          |-> attributes,
             classification      |-> "None",
             sentence_num        |-> "None"]
    IN  [self EXCEPT !.classification = classify(self)]

\* from_markup that lets an unrecognized category through
from_markup_no_check(tag_object, sentence, sentence_span) ==
    IF tag_object.category[1] \in DOMAIN annotation_types
    THEN [raised |-> FALSE,
          annotation |-> markup_annotation(tag_object, sentence, sentence_span)]
    ELSE [raised |-> FALSE,
          annotation |-> [id |-> tag_object.id,
                          markup_category |-> tag_object.category[1],
                          annotation_type |-> "None",
                          sentence_num |-> "None"]]

\* Annotation.from_markup: raises on a category outside _annotation_types,
\* else leaves the filled-in Annotation.
from_markup(tag_object, sentence, sentence_span) ==
    IF tag_object.category[1] \notin DOMAIN annotation_types
    THEN [raised |-> TRUE,
          error  |-> [type     |-> "NotImplementedError",
                      category |-> tag_object.category[1]]]
    ELSE [raised |-> FALSE,
          annotation |-> markup_annotation(tag_object, sentence, sentence_span)]

-----------------------------------------------------------------------------
(* The markup engine (MentionLevelModel / pyConText), a black box.          *)
(* markup_sentence(text) may return any list of targets in text order, each *)
(* on a word of the sentence, each with any list of modifiers on words of   *)
(* the sentence.  `model` holds what the engine's lexicon lets it return.   *)

TargetCategories == DOMAIN annotation_types \cup {"sepsis"}

ModifierCategories ==
    {<<"definite_existence">>, <<"definite_negated_existence">>,
     <<"indication">>, <<"probable_existence">>, <<"anatomy">>,
     <<"surgical site">>, <<"probable_existence", "anatomy">>,
     <<"historical">>}

\* An engine that returns several targets per sentence, few modifiers.
LoopEngine ==
    [max_targets         |-> MaxTargets,
     max_modifiers       |-> 1,
     target_categories   |-> {"pneumonia", "urinary tract infection",
                              "superficial surgical site infection", "sepsis"},
     modifier_categories |-> {<<"definite_negated_existence">>, <<"anatomy">>}]

\* An engine that returns one target per sentence, with any modifiers.
RichEngine ==
    [max_targets         |-> 1,
     max_modifiers       |-> MaxModifiers,
     target_categories   |-> TargetCategories,
     modifier_categories |-> ModifierCategories]

\* The modifiers the engine may attach to one target of `text`.
ModifierLists(engine, text) ==
    LET word_spans == get_text_spans(text)
        one == {[category |-> c,
                 span     |-> word_spans[w],
                 literal  |-> Slice(text, word_spans[w][1], word_spans[w][2])] :
                    c \in engine.modifier_categories, w \in DOMAIN word_spans}
    IN  UNION {[1..n -> one] : n \in 0..engine.max_modifiers}

\* The words of `text` the engine may report targets on: at most
\* max_targets of them.
TargetWords(engine, text) ==
    {ws \in SUBSET (DOMAIN get_text_spans(text)) :
         Cardinality(ws) <= engine.max_targets}

\* The k-th smallest element of a set of numbers
RECURSIVE Kth(_, _)
Kth(S, k) == IF k = 1 THEN Min(S) ELSE Kth(S \ {Min(S)}, k - 1)

\* getMarkedTargets() of the markup of sentence number n: the targets on the
\* words ws, in text order, with the categories and the modifiers given.
MarkedTargets(n, text, ws, categories, modifiers) ==
    [k \in 1..Cardinality(ws) |->
        LET w == Kth(ws, k)
        IN  [id        |-> <<n, w>>,
             category  |-> <<categories[w]>>,
             span      |-> get_text_spans(text)[w],
             modifiers |-> modifiers[w]]]

-----------------------------------------------------------------------------
(* ClinicalTextDocument.annotate *)

sentence_num == Len(markups) - 1

\* an insertion at the head of the list
prepended(list, item) == <<item>> \o list

\* list.append(item)
appended(list, item) == Append(list, item)

\* for sentence_num, sentence in enumerate(self.sentences):
\*     markup = model.markup_sentence(sentence['text'])
\*     targets = markup.getMarkedTargets()
MarkupSentence ==
    /\ pc = "sentences"
    /\ Len(markups) < Len(sentences)
    /\ LET text == sentences[Len(markups) + 1].text
       IN  \E ws \in TargetWords(model, text) :
               \E categories \in [ws -> model.target_categories],
                  modifiers \in [ws -> ModifierLists(model, text)] :
                   markups' = Append(markups,
                                     MarkedTargets(Len(markups), text, ws,
                                                   categories, modifiers))
    /\ target_idx' = 0
    /\ pc' = "targets"
    /\ UNCHANGED <<doc_vars, model, annotations, sentences_with_annotations,
                   error, classify_vars, file_vars>>

\* for target in targets: from_markup, then the two appends; an exception of
\* from_markup leaves annotate (there is no handler).
AnnotateTarget ==
    /\ pc = "targets"
    /\ target_idx < Len(markups[Len(markups)])
    /\ LET sentence == sentences[Len(markups)]
           target == markups[Len(markups)][target_idx + 1]
           result == from_markup(target, sentence.text, sentence.span)
       IN  IF result.raised
           THEN /\ error' = result.error
                /\ pc' = "raised"
                /\ UNCHANGED <<annotations, sentences_with_annotations,
                               target_idx>>
           ELSE /\ sentences_with_annotations' =
                       appended(sentences_with_annotations, sentence_num)
                /\ annotations' =
                       appended(annotations,
                                [result.annotation EXCEPT
                                     !.sentence_num = sentence_num])
                /\ target_idx' = target_idx + 1
                /\ UNCHANGED <<error, pc>>
    /\ UNCHANGED <<doc_vars, model, markups, classify_vars, file_vars>>

\* the targets of the sentence are exhausted: on to the next sentence
NextSentence ==
    /\ pc = "targets"
    /\ target_idx = Len(markups[Len(markups)])
    /\ pc' = "sentences"
    /\ UNCHANGED <<doc_vars, annotate_vars, classify_vars, file_vars>>

\* the sentences are exhausted: annotate returns
AnnotateReturn ==
    /\ pc = "sentences"
    /\ Len(markups) = Len(sentences)
    /\ pc' = "done"
    /\ UNCHANGED <<doc_vars, annotate_vars, classify_vars, file_vars>>

\* Raw texts of the documents annotate is run on.
AnnotateTexts ==
    {<<>>,
     <<"D", ".", " ", "r">>,
     <<" ", "r", "!", "\n", "\n", "D", " ", "r">>,
     <<"D", "r", ".", " ", "r", " ", " ", "r">>}

\* Raw texts of one sentence, for the engine with any modifiers.
MarkupTexts ==
    {<<"\n", "M", " ", " ", "r", ".">>,
     <<"D", "r", ".", " ", "r">>}

\* The state after ClinicalTextDocument(text), annotate(engine) about to start.
Constructed(text, engine) ==
    /\ pc = "sentences"
    /\ raw_text = text
    /\ original_spans = get_text_spans(text)
    /\ preprocessed_text = preprocess(text)
    /\ sentences = split_sentences(preprocess(text), get_text_spans(text))
    /\ model = engine
    /\ markups = <<>>
    /\ target_idx = 0
    /\ annotations = <<>>
    /\ sentences_with_annotations = <<>>
    /\ error = "None"
    /\ annotation = NoAnnotation
    /\ returned = "None"
    /\ calls = 0
    /\ NoFileCall

Init == \E text \in AnnotateTexts : Constructed(text, LoopEngine)

InitMarkup == \E text \in MarkupTexts : Constructed(text, RichEngine)

Next ==
    \/ MarkupSentence
    \/ AnnotateTarget
    \/ NextSentence
    \/ AnnotateReturn

Spec == Init /\ [][Next]_vars

SpecMarkup == InitMarkup /\ [][Next]_vars

-----------------------------------------------------------------------------
(* Specification of classify: any attribute snapshot, classify called on it *)

Snapshots ==
    [annotation_type : DOMAIN annotation_classifications,
     attributes      : [assertion   : {"positive", "negated", "probable",
                                       "indication"},
                        temporality : {"current", "historical",
                                       "future/hypothetical"},
                        anatomy     : {<<>>, <<"abdomen">>}],
     classification  : {"None"}]

InitClassify ==
    /\ pc = "classify"
    /\ raw_text = <<>>
    /\ original_spans = <<>>
    /\ preprocessed_text = <<>>
    /\ sentences = <<>>
    /\ model = "None"
    /\ markups = <<>>
    /\ target_idx = 0
    /\ annotations = <<>>
    /\ sentences_with_annotations = <<>>
    /\ error = "None"
    /\ annotation \in Snapshots
    /\ returned = "None"
    /\ calls = 0
    /\ NoFileCall

\* annotation.classify()
Classify ==
    /\ pc = "classify"
    /\ calls < MaxCalls
    /\ returned' = classify(annotation)
    /\ annotation' = [annotation EXCEPT !.classification = classify(annotation)]
    /\ calls' = calls + 1
    /\ UNCHANGED <<pc, doc_vars, annotate_vars, file_vars>>

NextClassify == Classify

SpecClassify == InitClassify /\ [][NextClassify]_vars

-----------------------------------------------------------------------------
(* ClinicalTextDocument.to_knowtator *)

\* os.path.join(outdir, self.rpt_id + '.txt.knowtator.xml')
outpath_of(dir, id) == <<dir, id \o ".txt.knowtator.xml">>

\* ClinicalTextDocument.to_etree with Annotation.to_etree: the root with its
\* textSource and, per annotation, the annotation body and the class mention.
to_etree(id, anns) ==
    [textSource |-> id \o ".txt",
     mentions   |-> [i \in DOMAIN anns |->
                        [mention      |-> anns[i].id,
                         annotator    |-> anns[i].annotator,
                         span         |-> anns[i].span_in_document,
                         spannedText  |-> anns[i].text,
                         mentionClass |-> anns[i].annotation_type]]]

\* if not os.path.isdir(outdir): raise FileNotFoundError
CheckOutdir ==
    /\ pc = "to_knowtator"
    /\ IF outdir \notin directories
       THEN /\ pc' = "raised"
            /\ error' = [type |-> "FileNotFoundError", path |-> outdir]
       ELSE /\ pc' = "to_etree"
            /\ UNCHANGED error
    /\ UNCHANGED <<doc_vars, model, markups, target_idx, annotations,
                   sentences_with_annotations, classify_vars, file_vars>>

\* element_tree = self.to_etree()
ToEtree ==
    /\ pc = "to_etree"
    /\ element_tree' = to_etree(rpt_id, annotations)
    /\ pc' = "open"
    /\ UNCHANGED <<doc_vars, annotate_vars, classify_vars, rpt_id, outdir,
                   directories, files, f_out>>

\* to_etree raises: root is an xml.etree Element, Annotation.to_etree returns
\* lxml elements, and root.append may refuse an element of another library.
ToEtreeRaises ==
    /\ pc = "to_etree"
    /\ annotations # <<>>
    /\ error' = [type |-> "TypeError", path |-> "None"]
    /\ pc' = "raised"
    /\ UNCHANGED <<doc_vars, model, markups, target_idx, annotations,
                   sentences_with_annotations, classify_vars, file_vars>>

\* f_out = open(outpath, 'w'): the file exists from here on
OpenFile ==
    /\ pc = "open"
    /\ f_out' = "open"
    /\ files' = files \cup {outpath_of(outdir, rpt_id)}
    /\ pc' = "write"
    /\ UNCHANGED <<doc_vars, annotate_vars, classify_vars, rpt_id, outdir,
                   directories, element_tree>>

\* open raises (the path cannot be written): no file object
OpenRaises ==
    /\ pc = "open"
    /\ error' = [type |-> "OSError", path |-> outpath_of(outdir, rpt_id)]
    /\ pc' = "raised"
    /\ UNCHANGED <<doc_vars, model, markups, target_idx, annotations,
                   sentences_with_annotations, classify_vars, file_vars>>

\* element_tree.write(f_out, encoding='unicode'); print(...)
WriteTree ==
    /\ pc = "write"
    /\ pc' = "close"
    /\ UNCHANGED <<doc_vars, annotate_vars, classify_vars, file_vars>>

\* element_tree.write raises (a character the file's encoding lacks, a full
\* disk): the exception leaves to_knowtator, f_out.close() is not reached
WriteRaises ==
    /\ pc = "write"
    /\ error' = [type |-> "WriteError", path |-> outpath_of(outdir, rpt_id)]
    /\ pc' = "raised"
    /\ UNCHANGED <<doc_vars, model, markups, target_idx, annotations,
                   sentences_with_annotations, classify_vars, file_vars>>

\* f_out.close(), return
CloseFile ==
    /\ pc = "close"
    /\ f_out' = "closed"
    /\ pc' = "done"
    /\ UNCHANGED <<doc_vars, annotate_vars, classify_vars, rpt_id, outdir,
                   directories, files, element_tree>>

\* The directories and report ids to_knowtator is tried on.
Directories == {"tmp", "out"}
ReportIds == {"example_report", "a"}

\* The document written: "D. r", with no annotation or with one.
KnowtatorText == <<"D", ".", " ", "r">>

KnowtatorAnnotations ==
    LET sentence == split_sentences(preprocess(KnowtatorText),
                                    get_text_spans(KnowtatorText))[2]
        tag == [id        |-> <<1, 1>>,
                category  |-> <<"pneumonia">>,
                span      |-> <<0, 1>>,
                modifiers |-> <<>>]
    IN  {<<>>,
         <<[markup_annotation(tag, sentence.text, sentence.span)
                EXCEPT !.sentence_num = 1]>>}

InitKnowtator ==
    /\ pc = "to_knowtator"
    /\ raw_text = KnowtatorText
    /\ original_spans = get_text_spans(KnowtatorText)
    /\ preprocessed_text = preprocess(KnowtatorText)
    /\ sentences = split_sentences(preprocess(KnowtatorText),
                                   get_text_spans(KnowtatorText))
    /\ model = "None"
    /\ markups = <<>>
    /\ target_idx = 0
    /\ annotations \in KnowtatorAnnotations
    /\ sentences_with_annotations = [i \in DOMAIN annotations |-> 1]
    /\ error = "None"
    /\ annotation = NoAnnotation
    /\ returned = "None"
    /\ calls = 0
    /\ rpt_id \in ReportIds
    /\ outdir \in Directories
    /\ directories \in SUBSET Directories
    /\ files \in SUBSET {outpath_of(d, id) : d \in directories, id \in ReportIds}
    /\ element_tree = "None"
    /\ f_out = "None"

NextKnowtator ==
    \/ CheckOutdir
    \/ ToEtree
    \/ ToEtreeRaises
    \/ OpenFile
    \/ OpenRaises
    \/ WriteTree
    \/ WriteRaises
    \/ CloseFile

SpecKnowtator == InitKnowtator /\ [][NextKnowtator]_vars

-----------------------------------------------------------------------------
(* Annotator claims *)

\* Every target the engine has returned so far, in the order annotate takes them.
AllTargets == Flatten(markups)

\* The targets annotate has passed to from_markup and got an Annotation for.
Handled ==
    IF markups = <<>> THEN 0
    ELSE Len(Flatten(SubSeq(markups, 1, Len(markups) - 1))) + target_idx

Recognized(t) == t.category[1] \in DOMAIN annotation_types

AnnotationIds == [i \in DOMAIN annotations |-> annotations[i].id]

TargetIds == [i \in DOMAIN AllTargets |-> AllTargets[i].id]

TargetOf(a) == CHOOSE t \in {AllTargets[i] : i \in DOMAIN AllTargets} : t.id = a.id

Finished == pc \in {"done", "raised"}

\* C1: a target whose category is outside the mapping table makes annotate
\* raise the unrecognized-category error for that category, and no Annotation
\* of such a target is in document.annotations in any state.
C1_UnrecognizedRaisesAndIsNotAppended ==
    /\ \A i \in DOMAIN annotations :
           annotations[i].markup_category \in DOMAIN annotation_types
    /\ \A j \in DOMAIN AllTargets :
           ~Recognized(AllTargets[j]) =>
               \A i \in DOMAIN annotations : annotations[i].id # AllTargets[j].id
    /\ \A j \in 1..Handled : Recognized(AllTargets[j])
    /\ pc = "raised" =>
           /\ ~Recognized(AllTargets[Handled + 1])
           /\ error = [type     |-> "NotImplementedError",
                       category |-> AllTargets[Handled + 1].category[1]]
    /\ pc = "done" => \A j \in DOMAIN AllTargets : Recognized(AllTargets[j])

\* annotate has raised on a "sepsis" target after appending another target's
\* Annotation.
C1_Witness ==
    /\ pc = "raised"
    /\ error.category = "sepsis"
    /\ Len(annotations) >= 1

\* C2 as stated: when annotate is over, every recognized target that comes
\* after an unrecognized one has its Annotation in document.annotations, and
\* the sentences after an unrecognized target have been marked up.
C2_ContinuesAfterUnrecognized ==
    Finished =>
        /\ \A j \in DOMAIN AllTargets :
               (Recognized(AllTargets[j])
                   /\ \E i \in 1..(j - 1) : ~Recognized(AllTargets[i]))
               => \E k \in DOMAIN annotations :
                      annotations[k].id = AllTargets[j].id
        /\ (\E i \in DOMAIN AllTargets : ~Recognized(AllTargets[i]))
               => Len(markups) = Len(sentences)

AppendOnly ==
    /\ Len(annotations') >= Len(annotations)
    /\ SubSeq(annotations', 1, Len(annotations)) = annotations

OrderedBySentence ==
    /\ \A i, j \in DOMAIN annotations :
           i < j => annotations[i].sentence_num <= annotations[j].sentence_num
    /\ \A i \in DOMAIN annotations :
           /\ annotations[i].id = AllTargets[i].id
           /\ annotations[i].sentence_num = annotations[i].id[1]
    /\ pc = "done" => AnnotationIds = TargetIds

\* C3: annotate only appends: no step removes or reorders an appended
\* Annotation, sentence_num never decreases along the list, and after a pass in
\* which every target was recognized the list holds one Annotation per target
\* of the engine, by sentence and then by target order.
C3_AppendOnlyInOrder == [][AppendOnly]_vars /\ []OrderedBySentence

\* annotate is over with two Annotations of one sentence after one of an
\* earlier sentence.
C3_Witness ==
    /\ pc = "done"
    /\ Len(annotations) >= 3
    /\ annotations[1].sentence_num < annotations[2].sentence_num
    /\ annotations[2].sentence_num = annotations[3].sentence_num

ModifierCategorySet(t) ==
    {t.modifiers[i].category[1] : i \in DOMAIN t.modifiers}

\* The assertion decision table of the claim, first match first.
DecisionTable(category, mods) ==
    IF category = "negated superficial surgical site infection" THEN "negated"
    ELSE IF "definite_existence" \in mods THEN "positive"
    ELSE IF "definite_negated_existence" \in mods THEN "negated"
    ELSE IF "indication" \in mods THEN "indication"
    ELSE IF "probable_existence" \in mods THEN "probable"
    ELSE "positive"

\* C4: the assertion of every Annotation is the first match of the decision
\* table on its target's category and its modifiers' categories; modifiers
\* {definite_existence, probable_existence} give positive.
C4_AssertionByPriority ==
    \A i \in DOMAIN annotations :
        LET t == TargetOf(annotations[i])
        IN  /\ annotations[i].attributes.assertion
                   = DecisionTable(t.category[1], ModifierCategorySet(t))
            /\ (/\ ModifierCategorySet(t)
                       = {"definite_existence", "probable_existence"}
                /\ t.category[1] # "negated superficial surgical site infection")
               => annotations[i].attributes.assertion = "positive"

\* An Annotation whose modifiers are probable_existence then
\* definite_existence, asserted positive.
C4_Witness ==
    \E i \in DOMAIN annotations :
        /\ annotations[i].modifier_categories
               = <<"probable_existence", "definite_existence">>
        /\ annotations[i].markup_category = "pneumonia"
        /\ annotations[i].attributes.assertion = "positive"

\* The 3x4 table of the claim.
TableLabel(annotation_type, assertion) ==
    (CASE assertion = "positive" -> "Positive Evidence of "
       [] assertion = "negated" -> "Negated Evidence of "
       [] assertion = "probable" -> "Probable Evidence of "
       [] assertion = "indication" -> "Indication of ")
    \o
    (CASE annotation_type = "Evidence of SSI" -> "SSI"
       [] annotation_type = "Evidence of UTI" -> "UTI"
       [] annotation_type = "Evidence of Pneumonia" -> "Pneumonia")

HasAnatomyModifier(t) ==
    \E i \in DOMAIN t.modifiers :
        \E j \in DOMAIN t.modifiers[i].category :
            t.modifiers[i].category[j] \in {"anatomy", "surgical site"}

C6_ClassifyIdempotent ==
    [][calls' = calls + 1 =>
           /\ annotation'.attributes = annotation.attributes
           /\ annotation'.annotation_type = annotation.annotation_type
           /\ annotation'.classification = returned'
           /\ calls >= 1 => returned' = returned]_vars

\* classify has been called several times on a positive SSI without anatomy.
C6_Witness ==
    /\ calls >= 2
    /\ returned = "Positive Evidence of SSI - No Anatomy"
    /\ annotation.classification = returned

\* C10: span_in_sentence runs from the least start to the greatest end among
\* the spans of the target and its modifiers, and span_in_document is
\* span_in_sentence with the start of the sentence's span added to both ends.
C10_SpanUnionAndShift ==
    \A i \in DOMAIN annotations :
        LET a == annotations[i]
            t == TargetOf(a)
            s == sentences[a.sentence_num + 1]
            starts == {t.span[1]} \cup
                      {t.modifiers[k].span[1] : k \in DOMAIN t.modifiers}
            ends == {t.span[2]} \cup
                    {t.modifiers[k].span[2] : k \in DOMAIN t.modifiers}
        IN  /\ a.span_in_sentence = <<Min(starts), Max(ends)>>
            /\ a.span_in_document = <<a.span_in_sentence[1] + s.span[1],
                                      a.span_in_sentence[2] + s.span[1]>>

\* An Annotation of a sentence that does not start the document, whose span
\* starts at a modifier before the target.
C10_Witness ==
    \E i \in DOMAIN annotations :
        LET a == annotations[i]
            t == TargetOf(a)
        IN  /\ sentences[a.sentence_num + 1].span[1] > 0
            /\ a.span_in_sentence[1] < t.span[1]
            /\ a.span_in_sentence[2] = t.span[2]

-----------------------------------------------------------------------------
(* Segmenter claims *)

SliceSpan(s, span) == Slice(s, span[1], span[2])

\* Every maximal run of whitespace replaced by one space.
RECURSIVE CollapseWhitespace(_)
CollapseWhitespace(s) ==
    IF s = <<>> THEN <<>>
    ELSE IF s[1] \in Whitespace
         THEN IF Len(s) > 1 /\ s[2] \in Whitespace
              THEN CollapseWhitespace(Tail(s))
              ELSE <<" ">> \o CollapseWhitespace(Tail(s))
         ELSE <<s[1]>> \o CollapseWhitespace(Tail(s))

\* C7 as stated: every token span and every sentence span, sliced from the raw
\* text, yields exactly the token string and the sentence text of the record.
C7_SpansSliceExactly ==
    pc = "constructed" =>
        \A k \in DOMAIN sentences :
            /\ SliceSpan(raw_text, sentences[k].span) = sentences[k].text
            /\ \A i \in DOMAIN sentences[k].word_spans :
                   SliceSpan(raw_text, sentences[k].word_spans[i])
                       = sentences[k].words[i]

\* C7 amended: every token span sliced from the raw text and lower-cased yields
\* the token string of the record; every sentence span sliced from the raw
\* text, lower-cased and with each whitespace run collapsed to one space,
\* yields the sentence text of the record.
C7_SpansSliceUpToNormalisation ==
    pc = "constructed" =>
        \A k \in DOMAIN sentences :
            /\ CollapseWhitespace(Lower(SliceSpan(raw_text, sentences[k].span)))
                   = sentences[k].text
            /\ Len(sentences[k].word_spans) = Len(sentences[k].words)
            /\ \A i \in DOMAIN sentences[k].word_spans :
                   Lower(SliceSpan(raw_text, sentences[k].word_spans[i]))
                       = sentences[k].words[i]

\* A constructed document with a sentence of several tokens whose raw slice
\* differs from the recorded text (upper case or a longer whitespace run).
C7_Witness ==
    /\ pc = "constructed"
    /\ \E k \in DOMAIN sentences :
           /\ Len(sentences[k].words) >= 2
           /\ SliceSpan(raw_text, sentences[k].span) # sentences[k].text
           /\ Len(SliceSpan(raw_text, sentences[k].span)) > Len(sentences[k].text)

\* C8: the sentences partition the tokens: their word_spans concatenated are
\* original_spans, every sentence is non-empty with as many words as spans, its
\* span runs from its first token's start to its last token's end, indices run
\* 0, 1, 2, ..., and the empty text has no sentence.
C8_SentencesPartitionTokens ==
    pc = "constructed" =>
        /\ Flatten([k \in DOMAIN sentences |-> sentences[k].word_spans])
               = original_spans
        /\ Flatten([k \in DOMAIN sentences |-> sentences[k].words])
               = Split(Lower(raw_text))
        /\ \A k \in DOMAIN sentences :
               LET s == sentences[k]
               IN  /\ Len(s.words) > 0
                   /\ Len(s.words) = Len(s.word_spans)
                   /\ s.span = <<s.word_spans[1][1],
                                 s.word_spans[Len(s.word_spans)][2]>>
                   /\ s.idx = k - 1
        /\ (raw_text = <<>> => sentences = <<>>)

\* A constructed document of two sentences whose last one was flushed after the
\* loop and holds several tokens.
C8_Witness ==
    /\ pc = "constructed"
    /\ Len(sentences) >= 2
    /\ LET s == sentences[Len(sentences)]
       IN  /\ Len(s.words) >= 2
           /\ s.words[Len(s.words)][Len(s.words[Len(s.words)])]
                  \notin {".", "!", "?"}

\* A token that terminates a sentence, as the claim words it.
Terminating(word) ==
    /\ word[Len(word)] \in {".", "!", "?"}
    /\ word \notin {<<"d", "r", ".">>, <<"m", ".", "d">>, <<"m", "r", ".">>,
                    <<"m", "s", ".">>, <<"m", "r", "s", ".">>}

\* C9: every sentence but possibly the last ends with a terminating token (last
\* character . ! ? and not an exception word), no sentence holds a terminating
\* token before its last token, and the tokens left after the last terminator
\* form one final sentence.
C9_SentenceEndsAtTerminators ==
    pc = "constructed" =>
        /\ \A k \in DOMAIN sentences :
               LET w == sentences[k].words
               IN  /\ \A i \in 1..(Len(w) - 1) : ~Terminating(w[i])
                   /\ k < Len(sentences) => Terminating(w[Len(w)])
        /\ LET tokens == Split(Lower(raw_text))
               n == Cardinality({i \in DOMAIN tokens : Terminating(tokens[i])})
           IN  Len(sentences) =
                   IF tokens # <<>> /\ ~Terminating(tokens[Len(tokens)])
                   THEN n + 1 ELSE n

\* A constructed document in which an exception word ending in a period is
\* followed by another token of the same sentence.
C9_Witness ==
    /\ pc = "constructed"
    /\ \E k \in DOMAIN sentences :
           \E i \in 1..(Len(sentences[k].words) - 1) :
               /\ sentences[k].words[i] \in {<<"d", "r", ".">>, <<"m", "r", ".">>}
               /\ raw_text[sentences[k].word_spans[i][1] + 1] \in {"D", "M"}

-----------------------------------------------------------------------------
(* Output claims *)

\* C11: when to_knowtator has returned or raised, the output file was never
\* opened or is closed; and when the output directory does not exist the call
\* raises FileNotFoundError with no file opened and nothing created in it.
C11_NoHandleLeftOpen ==
    /\ pc \in {"done", "raised"} => f_out \in {"None", "closed"}
    /\ (pc \in {"done", "raised"} /\ outdir \notin directories) =>
           /\ pc = "raised"
           /\ error.type = "FileNotFoundError"
           /\ f_out = "None"
           /\ \A id \in ReportIds : outpath_of(outdir, id) \notin files

\* C12: every annotation's span_in_document is an offset range of raw_text
\* lying inside the span of the annotation's sentence, and the slice of
\* raw_text it names is the annotation's text up to letter case.
C12_DocumentSpanSlicesRawText ==
    \A i \in DOMAIN annotations :
        LET a == annotations[i]
            s == sentences[a.sentence_num + 1]
        IN  /\ s.span[1] <= a.span_in_document[1]
            /\ a.span_in_document[1] <= a.span_in_document[2]
            /\ a.span_in_document[2] <= s.span[2]
            /\ a.span_in_document[2] <= Len(raw_text)
            /\ Lower(SliceSpan(raw_text, a.span_in_document)) = a.text

====
